---------------------------- MODULE Spec2Model ----------------------------
(***************************************************************************)
(* A model of the rust-pkl client: the binary value decoder                *)
(* (src/src/decoder.rs), the evaluator session (src/src/evaluator.rs), the *)
(* transport (src/src/protocol.rs) and the error translation               *)
(* (src/src/errors.rs).                                                    *)
(*                                                                         *)
(* Bytes are the integers 0..255.  A Rust String is the sequence of its    *)
(* UTF-8 bytes.  An Option is a sequence of length 0 (None) or 1 (Some).   *)
(* A 64-bit integer is its 8-byte big-endian two's-complement pattern, so  *)
(* that every width of the wire format is representable.                   *)
(*                                                                         *)
(* Spec is the session (Protocol::new, Evaluator::eval step by step, the   *)
(* subprocess writing to its stdout pipe, the drop of the session), with a *)
(* subprocess that may write any message at any time; SpecOrderly is the   *)
(* session with a subprocess that answers each request once, in order, and *)
(* may write Log messages.  The                                            *)
(* other specifications apply one function to an input drawn from a        *)
(* bounded set: SpecDecoder applies Decoder::decode to a byte buffer,      *)
(* SpecParse applies PklError::parse to a server error string,             *)
(* SpecRequestId applies Evaluator::gen_request_id to a counter,           *)
(* SpecResponse applies the receive path (Decoder::decode_response,        *)
(* Protocol::recv::<T>, eval's handling) to a message of the pipe,         *)
(* SpecSend applies Protocol::send to a client message.                    *)
(***************************************************************************)
EXTENDS Integers, Sequences, FiniteSets, TLC

VARIABLES
    \* ---- session (Spec) ----
    pc,          \* where the client is: "start", "idle", "create_recv",
                 \* "evaluate_recv", "aborted", "ended"
    child,       \* Protocol.child: "none", "running", "killed"
    request_id,  \* Evaluator.request_id
    stdin,       \* every message written to the subprocess, in order
    stdout,      \* messages the subprocess has written and the client has not read
    call,        \* the locals of the current (or last) eval call
    ret,         \* what the last eval call (or Protocol::new) returned
    served,      \* how many of the requests in stdin the subprocess has
                 \* answered, where it answers them in order (SpecOrderly)
    \* ---- one function applied to one input (SpecDecoder, SpecParse, ...) ----
    tc,          \* how the input was built
    input,       \* the input: the bytes under the cursor, the error string,
                 \* the counter, the message
    dpc,         \* "ready" or "done"
    out          \* what the function returned

sessionVars == <<pc, child, request_id, stdin, stdout, call, ret, served>>
decoderVars == <<tc, input, dpc, out>>
vars == <<pc, child, request_id, stdin, stdout, call, ret, served, tc, input, dpc, out>>

-----------------------------------------------------------------------------
(* Bounds of the model.                                                    *)

\* longest raw byte string (over Alphabet) given to the decoder
MaxRawLen == 2
\* most properties in a generated object envelope
MaxProps == 2
\* most elements in a generated array or entries in a generated map
MaxElems == 2
\* most eval calls on one session
MaxCalls == 2
\* most unread messages in the subprocess's stdout pipe
MaxPipe == 1
\* longest declared length of a generated string (but for the oversized ones)
MaxStrLen == 2
\* longest generated server error string
MaxErrLen == 5

-----------------------------------------------------------------------------
(* Results: Result<T, E> of the code, plus the abort of unimplemented!()   *)
(* and of an out-of-bounds index, which is no value at all.                *)

Ok(v, p) == [kind |-> "ok", val |-> v, pos |-> p]
Err(e) == [kind |-> "err", err |-> e]
Panic(m) == [kind |-> "panic", msg |-> m]

IsOk(r) == r.kind = "ok"

-----------------------------------------------------------------------------
(* Value (server.rs).                                                      *)

VNull == [t |-> "Null"]
VInt(b8) == [t |-> "Int", i |-> b8]
VUint(b8) == [t |-> "Uint", u |-> b8]
VFloat(w, bits) == [t |-> "Float", w |-> w, bits |-> bits]
VBool(b) == [t |-> "Bool", b |-> b]
VString(s) == [t |-> "String", s |-> s]
VFunction == [t |-> "Function"]
VObject(c, m, ps) == [t |-> "Object", class_name |-> c, module_uri |-> m, properties |-> ps]
VArray(a) == [t |-> "Array", a |-> a]
VMap(m) == [t |-> "Map", m |-> m]
VMapping(m) == [t |-> "Mapping", m |-> m]

\* ValueError (errors.rs); marker is the offending marker byte where the
\* variant carries one, 0 otherwise
E(name, m) == [e |-> name, marker |-> m]

\* impl TryFrom<Value> for String
StringTryFrom(v, p) == IF v.t = "String" THEN Ok(v.s, p) ELSE Err(E("UnexpectedValue", 0))

-----------------------------------------------------------------------------
(* Bytes, markers and the primitive reads of the rmp crate as the decoder  *)
(* calls them.  The cursor position p is the index of the next byte.       *)

Byte == 0..255

\* rmp::Marker::from_u8
MarkerName(m) ==
    CASE m <= 127 -> "FixPos"
      [] m >= 128 /\ m <= 143 -> "FixMap"
      [] m >= 144 /\ m <= 159 -> "FixArray"
      [] m >= 160 /\ m <= 191 -> "FixStr"
      [] m = 192 -> "Null"
      [] m = 193 -> "Reserved"
      [] m = 194 -> "False"
      [] m = 195 -> "True"
      [] m = 196 -> "Bin8"
      [] m = 197 -> "Bin16"
      [] m = 198 -> "Bin32"
      [] m = 199 -> "Ext8"
      [] m = 200 -> "Ext16"
      [] m = 201 -> "Ext32"
      [] m = 202 -> "F32"
      [] m = 203 -> "F64"
      [] m = 204 -> "U8"
      [] m = 205 -> "U16"
      [] m = 206 -> "U32"
      [] m = 207 -> "U64"
      [] m = 208 -> "I8"
      [] m = 209 -> "I16"
      [] m = 210 -> "I32"
      [] m = 211 -> "I64"
      [] m = 212 -> "FixExt1"
      [] m = 213 -> "FixExt2"
      [] m = 214 -> "FixExt4"
      [] m = 215 -> "FixExt8"
      [] m = 216 -> "FixExt16"
      [] m = 217 -> "Str8"
      [] m = 218 -> "Str16"
      [] m = 219 -> "Str32"
      [] m = 220 -> "Array16"
      [] m = 221 -> "Array32"
      [] m = 222 -> "Map16"
      [] m = 223 -> "Map32"
      [] OTHER -> "FixNeg"

\* Decoder::marker: one byte, or a MarkerReadError at the end of the stream
marker(b, p) ==
    IF p > Len(b) THEN Err(E("MarkerRead", 0)) ELSE Ok(b[p], p + 1)

\* RmpRead::read_data_u8 / u16 / u32: w raw big-endian bytes, no marker
read_data(b, p, w) ==
    IF p + w - 1 > Len(b) THEN Err(E("Read.InvalidDataRead", 0))
    ELSE Ok(SubSeq(b, p, p + w - 1), p + w)

\* rmp::decode::read_i8 .. read_u64, read_f32, read_f64: these read a marker
\* byte themselves, require it to be the expected one, then read w data bytes
read_typed(b, p, expected, w) ==
    IF p > Len(b) THEN Err(E("Read.InvalidMarkerRead", 0))
    ELSE IF b[p] # expected THEN Err(E("Read.TypeMismatch", b[p]))
    ELSE read_data(b, p + 1, w)

\* big-endian bytes as a number (as usize).  Numbers here are 32-bit signed:
\* a 32-bit count of 2^31 or more is cut to 2^31 - 1 (no buffer is that long,
\* so a loop of that many reads, or a read of that many bytes, ends the same)
BE(bs) ==
    CASE Len(bs) = 1 -> bs[1]
      [] Len(bs) = 2 -> bs[1] * 256 + bs[2]
      [] OTHER -> IF bs[1] >= 128 THEN 2147483647
                  ELSE bs[1] * 16777216 + bs[2] * 65536 + bs[3] * 256 + bs[4]

\* `as u64` of an unsigned value of Len(bs) bytes
ZeroExt(bs) == [k \in 1..8 |-> IF k <= 8 - Len(bs) THEN 0 ELSE bs[k - (8 - Len(bs))]]

\* `as i64` of a signed value of Len(bs) bytes
SignExt(bs) ==
    [k \in 1..8 |-> IF k <= 8 - Len(bs) THEN (IF bs[1] >= 128 THEN 255 ELSE 0)
                    ELSE bs[k - (8 - Len(bs))]]

\* a u64 holding the number n (n below 2^31)
U64(n) == ZeroExt(<<n \div 16777216, (n \div 65536) % 256, (n \div 256) % 256, n % 256>>)

\* u64::MAX
U64Max == [k \in 1..8 |-> 255]

RECURSIVE wrapping_add_one(_)
\* x + 1 modulo 2^(8 * Len(bs)), on the big-endian bytes of x
wrapping_add_one(bs) ==
    IF bs = <<>> THEN <<>>
    ELSE IF bs[Len(bs)] = 255 THEN wrapping_add_one(SubSeq(bs, 1, Len(bs) - 1)) \o <<0>>
    ELSE [bs EXCEPT ![Len(bs)] = bs[Len(bs)] + 1]

RECURSIVE Utf8Valid(_)
\* String::from_utf8 accepts s
Utf8Valid(s) ==
    LET cont(k) == Len(s) >= k /\ s[k] >= 128 /\ s[k] <= 191
        rest(k) == Utf8Valid(SubSeq(s, k, Len(s)))
    IN  IF s = <<>> THEN TRUE
        ELSE CASE s[1] <= 127 -> rest(2)
               [] s[1] >= 194 /\ s[1] <= 223 -> cont(2) /\ rest(3)
               [] s[1] = 224 -> cont(2) /\ s[2] >= 160 /\ cont(3) /\ rest(4)
               [] s[1] = 237 -> cont(2) /\ s[2] <= 159 /\ cont(3) /\ rest(4)
               [] s[1] >= 225 /\ s[1] <= 239 /\ s[1] # 237 -> cont(2) /\ cont(3) /\ rest(4)
               [] s[1] = 240 -> cont(2) /\ s[2] >= 144 /\ cont(3) /\ cont(4) /\ rest(5)
               [] s[1] >= 241 /\ s[1] <= 243 -> cont(2) /\ cont(3) /\ cont(4) /\ rest(5)
               [] s[1] = 244 -> cont(2) /\ s[2] <= 143 /\ cont(3) /\ cont(4) /\ rest(5)
               [] OTHER -> FALSE

-----------------------------------------------------------------------------
(* Decoder (decoder.rs).  Every operator takes the buffer b and the cursor *)
(* position p and returns Ok(value, new position), Err(error) or Panic.    *)

RECURSIVE decode_inner(_, _, _)
RECURSIVE decode(_, _)
RECURSIVE decode_array_loop(_, _, _, _)
RECURSIVE decode_properties_loop(_, _, _, _)
RECURSIVE decode_map_loop(_, _, _, _)

\* decode_string with a read of the bytes available in place of read_exact
decode_string_available(b, p, len) ==
    LET n == IF len > Len(b) - p + 1 THEN Len(b) - p + 1 ELSE len
        buff == SubSeq(b, p, p + n - 1)
    IN  IF Utf8Valid(buff) THEN Ok(VString(buff), p + n) ELSE Err(E("Utf8", 0))

\* Decoder::decode_string: read_exact of len bytes, then String::from_utf8
decode_string(b, p, len) ==
    IF len > Len(b) - p + 1 THEN Err(E("IO.UnexpectedEof", 0))
    ELSE LET buff == SubSeq(b, p, p + len - 1)
         IN  IF Utf8Valid(buff) THEN Ok(VString(buff), p + len) ELSE Err(E("Utf8", 0))

\* Decoder::decode_property
decode_property(b, p) ==
    LET m == marker(b, p) IN
    IF ~IsOk(m) THEN m
    ELSE IF m.val # 147 THEN Err(E("InvalidMarker", m.val))
    ELSE LET code == read_data(b, m.pos, 1) IN
         IF ~IsOk(code) THEN code
         ELSE IF code.val[1] = 16
              THEN LET nv == decode(b, code.pos) IN
                   IF ~IsOk(nv) THEN nv
                   ELSE LET name == StringTryFrom(nv.val, nv.pos) IN
                        IF ~IsOk(name) THEN name
                        ELSE LET value == decode(b, name.pos) IN
                             IF ~IsOk(value) THEN value
                             ELSE Ok(<<name.val, value.val>>, value.pos)
              ELSE Panic("not implemented")

\* HashMap::insert
Insert(props, key, value) ==
    [k \in DOMAIN props \cup {key} |-> IF k = key THEN value ELSE props[k]]

\* the loop of Decoder::decode_array
decode_array_loop(b, p, n, array) ==
    IF n = 0 THEN Ok(VArray(array), p)
    ELSE LET r == decode(b, p) IN
         IF ~IsOk(r) THEN r
         ELSE decode_array_loop(b, r.pos, n - 1, Append(array, r.val))

\* Decoder::decode_array
decode_array(b, p, n) == decode_array_loop(b, p, n, <<>>)

\* the loop of Decoder::decode_properties
decode_properties_loop(b, p, n, properties) ==
    IF n = 0 THEN Ok(properties, p)
    ELSE LET r == decode_property(b, p) IN
         IF ~IsOk(r) THEN r
         ELSE decode_properties_loop(b, r.pos, n - 1, Insert(properties, r.val[1], r.val[2]))

\* Decoder::decode_properties
decode_properties(b, p, n) == decode_properties_loop(b, p, n, <<>>)

\* the loop of the FixMap arm of decode_inner: value first, then key, and
\* the pair pushed is (key, value)
decode_map_loop(b, p, n, map) ==
    IF n = 0 THEN Ok(VMap(map), p)
    ELSE LET value == decode(b, p) IN
         IF ~IsOk(value) THEN value
         ELSE LET key == decode(b, value.pos) IN
              IF ~IsOk(key) THEN key
              ELSE decode_map_loop(b, key.pos, n - 1, Append(map, <<key.val, value.val>>))

\* decode_property_block with every count prefix read as one byte
decode_property_block_u8(b, p) ==
    LET m == marker(b, p) IN
    IF ~IsOk(m) THEN m
    ELSE CASE MarkerName(m.val) = "FixArray" -> decode_properties(b, m.pos, m.val - 144)
           [] MarkerName(m.val) \in {"Array16", "Array32"} ->
                LET n == read_data(b, m.pos, 1) IN
                IF ~IsOk(n) THEN n ELSE decode_properties(b, n.pos, BE(n.val))
           [] OTHER -> Err(E("InvalidMarker", m.val))

\* the property block of a tag-0x1 envelope: its count prefix, then the properties
decode_property_block(b, p) ==
    LET m == marker(b, p) IN
    IF ~IsOk(m) THEN m
    ELSE CASE MarkerName(m.val) = "FixArray" -> decode_properties(b, m.pos, m.val - 144)
           [] MarkerName(m.val) = "Array16" ->
                LET n == read_data(b, m.pos, 2) IN
                IF ~IsOk(n) THEN n ELSE decode_properties(b, n.pos, BE(n.val))
           [] MarkerName(m.val) = "Array32" ->
                LET n == read_data(b, m.pos, 4) IN
                IF ~IsOk(n) THEN n ELSE decode_properties(b, n.pos, BE(n.val))
           [] OTHER -> Err(E("InvalidMarker", m.val))

\* PayloadMode with the payload read extension-aware
PayloadModeAware == TRUE

\* the custom_type argument the arms of tags 0x3 and 0x5 pass on
PayloadMode == FALSE

\* the arm of tag 0x3 returning the Mapping variant for a map payload
decode_mapping_as_variant(b, p) ==
    LET r == decode_inner(b, p, PayloadMode) IN
    IF IsOk(r) /\ r.val.t = "Map" THEN Ok(VMapping(r.val.m), r.pos) ELSE r

\* the arm `0x3 => self.decode_inner(false)` of the envelope
decode_mapping(b, p) == decode_inner(b, p, PayloadMode)

\* the arm `Marker::FixArray(_) if custom_type` of decode_inner, the marker read
decode_envelope(b, p) ==
    LET tag == read_data(b, p, 1) IN
    IF ~IsOk(tag) THEN tag
    ELSE CASE tag.val[1] = 1 ->
                LET cv == decode_inner(b, tag.pos, FALSE) IN
                IF ~IsOk(cv) THEN cv
                ELSE LET class_name == StringTryFrom(cv.val, cv.pos) IN
                IF ~IsOk(class_name) THEN class_name
                ELSE LET mv == decode_inner(b, class_name.pos, FALSE) IN
                IF ~IsOk(mv) THEN mv
                ELSE LET module_uri == StringTryFrom(mv.val, mv.pos) IN
                IF ~IsOk(module_uri) THEN module_uri
                ELSE LET properties == decode_property_block(b, module_uri.pos) IN
                IF ~IsOk(properties) THEN properties
                ELSE Ok(VObject(class_name.val, module_uri.val, properties.val), properties.pos)
           [] tag.val[1] = 3 -> decode_mapping(b, tag.pos)
           [] tag.val[1] = 5 -> decode_inner(b, tag.pos, PayloadMode)
           [] tag.val[1] = 14 -> Ok(VFunction, tag.pos)
           [] OTHER -> Panic("not implemented: code is not implemented")

\* one integer or float arm of decode_inner: rmp::decode::read_<type> on the
\* reader, whose marker byte Decoder::marker has already consumed
decode_number(b, p, m) ==
    LET name == MarkerName(m)
        w == CASE name \in {"I8", "U8"} -> 1
               [] name \in {"I16", "U16"} -> 2
               [] name \in {"I32", "U32", "F32"} -> 4
               [] OTHER -> 8
        r == read_typed(b, p, m, w)
    IN  IF ~IsOk(r) THEN r
        ELSE CASE name \in {"I8", "I16", "I32", "I64"} -> Ok(VInt(SignExt(r.val)), r.pos)
               [] name \in {"U8", "U16", "U32", "U64"} -> Ok(VUint(ZeroExt(r.val)), r.pos)
               [] OTHER -> Ok(VFloat(w * 8, r.val), r.pos)

\* one length-prefixed string arm of decode_inner
decode_str_prefixed(b, p, w) ==
    LET len == read_data(b, p, w) IN
    IF ~IsOk(len) THEN len ELSE decode_string(b, len.pos, BE(len.val))

\* one length-prefixed array arm of decode_inner
decode_array_prefixed(b, p, w) ==
    LET n == read_data(b, p, w) IN
    IF ~IsOk(n) THEN n ELSE decode_array(b, n.pos, BE(n.val))

\* Decoder::decode_inner
decode_inner(b, p, custom_type) ==
    LET mr == marker(b, p) IN
    IF ~IsOk(mr) THEN mr
    ELSE LET m == mr.val
             q == mr.pos
             name == MarkerName(m)
         IN  CASE name = "FixArray" /\ custom_type -> decode_envelope(b, q)
               [] name \in {"I8", "I16", "I32", "I64", "U8", "U16", "U32", "U64", "F32", "F64"} ->
                    decode_number(b, q, m)
               [] name = "Null" -> Ok(VNull, q)
               [] name = "True" -> Ok(VBool(TRUE), q)
               [] name = "False" -> Ok(VBool(FALSE), q)
               [] name = "FixStr" -> decode_string(b, q, m - 160)
               [] name = "FixPos" -> Ok(VUint(ZeroExt(<<m>>)), q)
               [] name = "Str8" -> decode_str_prefixed(b, q, 1)
               [] name = "Str16" -> decode_str_prefixed(b, q, 2)
               [] name = "Str32" -> decode_str_prefixed(b, q, 4)
               [] name = "FixMap" -> decode_map_loop(b, q, m - 128, <<>>)
               [] name = "Array16" -> decode_array_prefixed(b, q, 2)
               [] name = "Array32" -> decode_array_prefixed(b, q, 4)
               [] name = "FixArray" /\ ~custom_type -> decode_array(b, q, m - 144)
               [] OTHER -> Panic("not implemented: unknown marker")

\* decode without extension interpretation
decode_plain(b, p) == decode_inner(b, p, FALSE)

\* Decoder::decode
decode(b, p) == decode_inner(b, p, TRUE)

-----------------------------------------------------------------------------
(* Error translation (errors.rs).  A character is its byte; 10 is '\n'.    *)

RECURSIVE splitn(_, _)
\* str::splitn(n, '\n'): at most n parts, the last one holding the rest
splitn(raw, n) ==
    LET nl == {k \in 1..Len(raw) : raw[k] = 10} IN
    IF n = 1 \/ nl = {} THEN <<raw>>
    ELSE LET k == CHOOSE x \in nl : \A y \in nl : x <= y
         IN  <<SubSeq(raw, 1, k - 1)>> \o splitn(SubSeq(raw, k + 1, Len(raw)), n - 1)

\* char::is_whitespace, on the characters used here
Whitespace == {9, 10, 11, 12, 13, 32}

\* str::trim_start in place of str::trim
trim_start(str) ==
    LET keep == {k \in 1..Len(str) : str[k] \notin Whitespace} IN
    IF keep = {} THEN <<>>
    ELSE SubSeq(str, CHOOSE x \in keep : \A y \in keep : x <= y, Len(str))

\* str::trim
trim(str) ==
    LET keep == {k \in 1..Len(str) : str[k] \notin Whitespace} IN
    IF keep = {} THEN <<>>
    ELSE SubSeq(str, CHOOSE x \in keep : \A y \in keep : x <= y,
                     CHOOSE x \in keep : \A y \in keep : x >= y)

\* PklError::parse; parts[2] is an index out of bounds when there are two parts
parse(raw) ==
    LET parts == splitn(raw, 3) IN
    IF Len(parts) < 2 THEN Ok([message |-> raw, trace |-> <<>>], 0)
    ELSE IF Len(parts) < 3 THEN Panic("index out of bounds")
    ELSE Ok([message |-> parts[2], trace |-> <<trim(parts[3])>>], 0)

-----------------------------------------------------------------------------
(* Messages (client.rs, server.rs) and the transport (protocol.rs).        *)

\* Uri::fmt (Display)
to_string(uri) == IF uri.kind = "File" THEN "file://" \o uri.s ELSE uri.s

\* EvalOpts::default(), with the project the caller chose
EvalOpts(project) ==
    [allowed_modules |-> <<"pkl:">>, allowed_resources |-> <<>>,
     output_format |-> "pkl", project |-> project]

\* CreateEvaluatorRequest::default()
CreateEvaluatorRequestDefault ==
    [request_id |-> U64(0), allowed_modules |-> <<>>, allowed_resources |-> <<>>,
     client_module_readers |-> <<>>, client_resource_readers |-> <<>>,
     module_paths |-> <<>>, env |-> <<>>, properties |-> <<>>,
     timeout_seconds |-> <<>>, root_dir |-> <<>>, cache_dir |-> <<>>,
     output_format |-> <<>>, project |-> <<>>, http |-> <<>>]

\* EvaluateRequest::default()
EvaluateRequestDefault ==
    [request_id |-> U64(0), evaluator_id |-> 0, module_uri |-> [kind |-> "File", s |-> "/dev/null"],
     module_text |-> <<>>, expr |-> <<>>]

\* the fields of type Option of the client message structs
OptionFields ==
    {"allowed_modules", "allowed_resources", "client_module_readers",
     "client_resource_readers", "module_paths", "env", "properties",
     "timeout_seconds", "root_dir", "cache_dir", "output_format", "project",
     "http", "module_text", "expr", "contents", "error", "path_elements", "spec"}

\* Message::CODE of the client message structs
ClientCodes == {32, 34, 35, 39, 41, 43, 45, 47, 49}

\* the structs that carry #[skip_serializing_none], by their code: every
\* one with an Option field but InitializeResourceReaderResponse (0x31)
SkipSerializingNone == {32, 35, 39, 41, 43, 45, 47}

\* what Option::None serializes to where it is not skipped
Nil == [t |-> "Nil"]

\* Default of the client message struct with the code
ClientMessageDefault(code) ==
    CASE code = 32 -> CreateEvaluatorRequestDefault
      [] code = 34 -> [evaluator_id |-> 0]
      [] code = 35 -> EvaluateRequestDefault
      [] code \in {39, 41} ->
            [request_id |-> U64(0), evaluator_id |-> 0, contents |-> <<>>, error |-> <<>>]
      [] code \in {43, 45} ->
            [request_id |-> U64(0), evaluator_id |-> 0, path_elements |-> <<>>, error |-> <<>>]
      [] OTHER -> [request_id |-> U64(0), spec |-> <<>>]

\* #[serde(rename_all = "camelCase")]
camelCase(f) ==
    CASE f = "request_id" -> "requestId"
      [] f = "allowed_modules" -> "allowedModules"
      [] f = "allowed_resources" -> "allowedResources"
      [] f = "client_module_readers" -> "clientModuleReaders"
      [] f = "client_resource_readers" -> "clientResourceReaders"
      [] f = "module_paths" -> "modulePaths"
      [] f = "timeout_seconds" -> "timeoutSeconds"
      [] f = "root_dir" -> "rootDir"
      [] f = "cache_dir" -> "cacheDir"
      [] f = "output_format" -> "outputFormat"
      [] f = "evaluator_id" -> "evaluatorId"
      [] f = "module_uri" -> "moduleUri"
      [] f = "module_text" -> "moduleText"
      [] f = "path_elements" -> "pathElements"
      [] OTHER -> f

\* Serialize of a message struct as a map (with_struct_map): one key per
\* field; a field that is None is left out where the struct skips them and
\* is written as nil where it does not; a Uri is written as its string
serialize(code, message) ==
    LET present == {f \in DOMAIN message :
                        \/ f \notin OptionFields
                        \/ message[f] # <<>>
                        \/ code \notin SkipSerializingNone}
        field(k) == CHOOSE f \in present : camelCase(f) = k
    IN  [k \in {camelCase(f) : f \in present} |->
            CASE field(k) \in OptionFields ->
                    IF message[field(k)] = <<>> THEN Nil ELSE message[field(k)][1]
              [] field(k) = "module_uri" -> to_string(message[field(k)])
              [] OTHER -> message[field(k)]]

\* Protocol::send: (M::CODE, message) written to the subprocess's stdin
send(pipe, code, message) == Append(pipe, [code |-> code, payload |-> serialize(code, message)])

\* ResponseName with the two resource callbacks bound to each other's code
ResponseName_swapped(code) ==
    CASE code = 33 -> "CreateEvaluator"
      [] code = 36 -> "Evaluate"
      [] code = 37 -> "Log"
      [] code = 38 -> "ListResources"
      [] code = 40 -> "ReadModule"
      [] code = 42 -> "ReadResource"
      [] code = 44 -> "ListModules"
      [] code = 46 -> "InitializeModuleReader"
      [] code = 48 -> "InitializeResourceReader"
      [] code = 50 -> "CloseExternalProcess"
      [] OTHER -> ""

\* decode!: the code of each server message, and Response::name of its kind
ResponseName(code) ==
    CASE code = 33 -> "CreateEvaluator"
      [] code = 36 -> "Evaluate"
      [] code = 37 -> "Log"
      [] code = 38 -> "ReadResource"
      [] code = 40 -> "ReadModule"
      [] code = 42 -> "ListResources"
      [] code = 44 -> "ListModules"
      [] code = 46 -> "InitializeModuleReader"
      [] code = 48 -> "InitializeResourceReader"
      [] code = 50 -> "CloseExternalProcess"
      [] OTHER -> ""

\* Decoder::decode_response on one well-formed [code, payload] of the pipe:
\* the Response variant of the code, around the payload
decode_response(m) ==
    IF ResponseName(m.code) = "" THEN Err([e |-> "InvalidCode", code |-> m.code])
    ELSE Ok([name |-> ResponseName(m.code), inner |-> m.payload], 0)

\* decode_response_typed with the variant taken for the expected one
decode_response_typed_unchecked(m, code) ==
    LET r == decode_response(m) IN
    IF ~IsOk(r) THEN r ELSE Ok(r.val.inner, 0)

\* Decoder::decode_response_typed::<T> (TryFrom<Response> for T), T given by its code
decode_response_typed(m, code) ==
    LET r == decode_response(m) IN
    IF ~IsOk(r) THEN r
    ELSE IF r.val.name = ResponseName(code) THEN Ok(r.val.inner, 0)
    ELSE Err([e |-> "InvalidResponse", name |-> r.val.name])

\* Protocol::recv::<T>
recv(m, code) == decode_response_typed(m, code)

\* Protocol::close, which nothing calls: Child::kill
close(c) == "killed"

\* what dropping the Protocol does to the subprocess: Protocol has no Drop
\* and the drop of a std::process::Child leaves the process running
drop(c) == c

-----------------------------------------------------------------------------
(* Evaluator (evaluator.rs).                                               *)

\* what eval returns: Ok(Option<Value>), Err(Error), or nothing after an abort
EvalOk(v) == [kind |-> "ok", val |-> v]
Pending == [kind |-> "pending"]

\* the two kinds of build: with overflow checks (the dev profile) and
\* without (the release profile)
OverflowChecks == BOOLEAN

\* gen_request_id with the counter left as it was
gen_request_id_reusing(counter, overflow_checks) ==
    [kind |-> "ok", request_id |-> counter, counter |-> counter]

\* Evaluator::gen_request_id: the ID handed out and the counter afterwards.
\* `self.request_id += 1` on a u64 wraps in a build without overflow checks
\* and panics in a build with them
gen_request_id(counter, overflow_checks) ==
    IF counter = U64Max /\ overflow_checks THEN Panic("attempt to add with overflow")
    ELSE [kind |-> "ok", request_id |-> counter, counter |-> wrapping_add_one(counter)]

\* `if let Some(message) = response.error.take()`: Error::Pkl(PklError::parse(message))
pkl_error(message) ==
    LET e == parse(message) IN
    IF IsOk(e) THEN Err([e |-> "Pkl", pkl |-> e.val]) ELSE e

\* check_create_response with the request ID trusted
check_create_response_trusting(response, id) ==
    IF response.error # <<>> THEN pkl_error(response.error[1]) ELSE Ok(response, 0)

\* eval's checks of the create-response: its error, then its request ID
check_create_response(response, id) ==
    IF response.error # <<>> THEN pkl_error(response.error[1])
    ELSE IF response.request_id # id
         THEN Err([e |-> "InvalidRequestId", expected |-> id, actual |-> response.request_id])
         ELSE Ok(response, 0)

\* eval's check of the evaluate-response: its error only
check_evaluate_response(response, id) ==
    IF response.error # <<>> THEN pkl_error(response.error[1])
    ELSE Ok(response, 0)

\* the end of eval: the result buffer, if any, through Decoder::decode
decode_result(result) ==
    IF result = <<>> THEN EvalOk(<<>>)
    ELSE LET v == decode(result[1], 1) IN
         CASE v.kind = "ok" -> EvalOk(<<v.val>>)
           [] v.kind = "err" -> Err([e |-> "Value", value |-> v.err])
           [] OTHER -> v

\* the create-request eval builds
create_request(opts, uri, id) ==
    LET module_paths == <<to_string(uri)>>
        request == [CreateEvaluatorRequestDefault EXCEPT
                        !.request_id = id,
                        !.allowed_modules = <<opts.allowed_modules>>,
                        !.allowed_resources = <<opts.allowed_resources>>,
                        !.output_format = <<opts.output_format>>]
    IN  IF opts.project # <<>> THEN [request EXCEPT !.project = opts.project]
        ELSE [request EXCEPT !.module_paths = <<module_paths>>]

\* Option::unwrap_or_default
unwrap_or_default(o) == IF o = <<>> THEN 0 ELSE o[1]

\* the evaluate-request eval builds
evaluate_request(response, uri, id) ==
    [EvaluateRequestDefault EXCEPT
        !.request_id = id,
        !.evaluator_id = unwrap_or_default(response.evaluator_id),
        !.module_uri = uri,
        !.expr = <<"output.value">>]

\* eval from the read of the message m where it awaits the create-response:
\* the checked response, or the error it returns
eval_create_response(m, id) ==
    LET r == recv(m, 33) IN
    IF IsOk(r) THEN check_create_response(r.val, id) ELSE r

\* eval from the read of the message m where it awaits the
\* evaluate-response: what it returns
eval_evaluate_response(m, id) ==
    LET r == recv(m, 36)
        c == IF IsOk(r) THEN check_evaluate_response(r.val, id) ELSE r
    IN  IF IsOk(c) THEN decode_result(c.val.result) ELSE c

\* how eval ends: back in the caller with a value or an error, or aborted
Return(r) ==
    /\ ret' = r
    /\ pc' = IF r.kind = "panic" THEN "aborted" ELSE "idle"

-----------------------------------------------------------------------------
(* What the subprocess may write, and what callers pass to eval.           *)

\* server error strings: "A\nm" and "A\nm\n t\nu \n"
ErrorStrings == {<<65, 10, 109>>, <<65, 10, 109, 10, 32, 116, 10, 117, 32, 10>>}

\* result buffers: 42 as a fixnum, 200 with the 8-bit unsigned marker, and
\* -1 as a negative fixnum
ResultBufs == {<<42>>, <<204, 200>>, <<255>>}

\* the request IDs a session can hand out
ResponseIds == {U64(n) : n \in 0..(MaxCalls - 1)}

\* create-responses: with an evaluator ID and each request ID, without an
\* evaluator ID, and with each error
CreateEvaluatorResponses ==
    {[code |-> 33, payload |-> [request_id |-> r, evaluator_id |-> <<7>>, error |-> <<>>]] :
        r \in ResponseIds}
    \cup {[code |-> 33, payload |-> [request_id |-> U64(0), evaluator_id |-> <<>>, error |-> <<>>]]}
    \cup {[code |-> 33, payload |-> [request_id |-> U64(0), evaluator_id |-> <<>>, error |-> <<er>>]] :
        er \in ErrorStrings}

\* evaluate-responses: without a result and with the result 42 for each
\* request ID, with each other result, and with each error
EvaluateResponses ==
    {[code |-> 36, payload |-> [request_id |-> r, evaluator_id |-> 7, result |-> res, error |-> <<>>]] :
        r \in ResponseIds, res \in {<<>>, <<(<<42>>)>>}}
    \cup {[code |-> 36, payload |-> [request_id |-> U64(0), evaluator_id |-> 7, result |-> <<buf>>, error |-> <<>>]] :
        buf \in ResultBufs}
    \cup {[code |-> 36, payload |-> [request_id |-> U64(0), evaluator_id |-> 7, result |-> <<>>, error |-> <<er>>]] :
        er \in ErrorStrings}

\* a Log message, and a code that is no server message
OtherMessages ==
    {[code |-> 37, payload |-> [evaluator_id |-> 7, level |-> 0, message |-> "m", frame_uri |-> "f"]],
     [code |-> 32, payload |-> [request_id |-> U64(0)]]}

\* what callers pass to eval: a module location, and the project of the options
EvalInputs ==
    {<<[kind |-> "File", s |-> "a.pkl"], <<>>>>,
     <<[kind |-> "Url", s |-> "https://h/m.pkl"], <<"project">>>>}

-----------------------------------------------------------------------------
(* Spec: one session, from Protocol::new to the drop of the Evaluator.     *)

\* nothing returned yet
NoResult == [kind |-> "none"]

\* before Protocol::new
SessionIdle ==
    /\ pc = "start"
    /\ child = "none"
    /\ request_id = U64(0)
    /\ stdin = <<>>
    /\ stdout = <<>>
    /\ call = <<>>
    /\ ret = NoResult
    /\ served = 0

Init ==
    /\ SessionIdle
    /\ tc = [form |-> "raw"]
    /\ input = <<>>
    /\ dpc = "ready"
    /\ out = NoResult

\* Protocol::new and Evaluator::new
ProtocolNew ==
    /\ pc = "start"
    /\ child' = "running"
    /\ request_id' = U64(0)
    /\ pc' = "idle"
    /\ UNCHANGED <<stdin, stdout, call, ret>>
    /\ UNCHANGED served
    /\ UNCHANGED decoderVars

\* Protocol::new when the subprocess cannot be spawned
ProtocolNewFails ==
    /\ pc = "start"
    /\ ret' = Err([e |-> "IO"])
    /\ pc' = "ended"
    /\ UNCHANGED <<child, request_id, stdin, stdout, call>>
    /\ UNCHANGED served
    /\ UNCHANGED decoderVars

\* the subprocess writes one message to its stdout
ServerWrite(m) ==
    /\ child = "running"
    /\ pc \in {"idle", "create_recv", "evaluate_recv"}
    /\ Len(stdout) < MaxPipe
    /\ stdout' = Append(stdout, m)
    /\ UNCHANGED <<pc, child, request_id, stdin, call, ret>>
    /\ UNCHANGED served
    /\ UNCHANGED decoderVars

\* eval, up to the blocking read of the create-response; at most MaxCalls
\* calls are made on one session
EvalCall(uri, project) ==
    /\ pc = "idle"
    /\ request_id \in ResponseIds
    /\ \E overflow_checks \in OverflowChecks :
        LET g == gen_request_id(request_id, overflow_checks)
            opts == EvalOpts(project)
        IN  IF g.kind = "panic"
            THEN /\ Return(g)
                 /\ UNCHANGED <<request_id, stdin, call>>
            ELSE /\ request_id' = g.counter
                 /\ stdin' = send(stdin, 32, create_request(opts, uri, g.request_id))
                 /\ call' = [request_id |-> g.request_id, uri |-> uri, base |-> Len(stdin)]
                 /\ ret' = Pending
                 /\ pc' = "create_recv"
    /\ UNCHANGED <<child, stdout>>
    /\ UNCHANGED served
    /\ UNCHANGED decoderVars

\* eval, from the create-response read to the blocking read of the
\* evaluate-response, or to its return
RecvCreate ==
    /\ pc = "create_recv"
    /\ stdout # <<>>
    /\ stdout' = Tail(stdout)
    /\ LET c == eval_create_response(Head(stdout), call.request_id)
       IN  IF IsOk(c)
           THEN /\ stdin' = send(stdin, 35, evaluate_request(c.val, call.uri, call.request_id))
                /\ pc' = "evaluate_recv"
                /\ UNCHANGED ret
           ELSE /\ Return(c)
                /\ UNCHANGED stdin
    /\ UNCHANGED <<child, request_id, call>>
    /\ UNCHANGED served
    /\ UNCHANGED decoderVars

\* eval, from the evaluate-response read to its return
RecvEvaluate ==
    /\ pc = "evaluate_recv"
    /\ stdout # <<>>
    /\ stdout' = Tail(stdout)
    /\ Return(eval_evaluate_response(Head(stdout), call.request_id))
    /\ UNCHANGED <<child, request_id, stdin, call>>
    /\ UNCHANGED served
    /\ UNCHANGED decoderVars

\* the session ends: the caller drops the Evaluator (main returns, or unwinds
\* after an abort), and with it the Protocol, whose two pipe ends are closed
Drop ==
    /\ pc \in {"idle", "aborted"}
    /\ child' = drop(child)
    /\ stdout' = <<>>
    /\ pc' = "ended"
    /\ UNCHANGED <<request_id, stdin, call, ret>>
    /\ UNCHANGED served
    /\ UNCHANGED decoderVars

Next ==
    \/ ProtocolNew
    \/ ProtocolNewFails
    \/ \E m \in CreateEvaluatorResponses \cup EvaluateResponses : ServerWrite(m)
    \/ \E m \in OtherMessages : ServerWrite(m)
    \/ \E i \in EvalInputs : EvalCall(i[1], i[2])
    \/ RecvCreate
    \/ RecvEvaluate
    \/ Drop

Spec == Init /\ [][Next]_vars

-----------------------------------------------------------------------------
(* SpecOrderly: the session with a subprocess that answers every request   *)
(* with one response of the request's kind and ID, in the order of the     *)
(* requests, and may write one-way Log messages in between.                *)

\* the responses that answer the request q
Answers(q) ==
    IF q.code = 32
    THEN {m \in CreateEvaluatorResponses : m.payload.request_id = q.payload.requestId}
    ELSE {m \in EvaluateResponses : m.payload.request_id = q.payload.requestId}

LogMessage == [code |-> 37, payload |-> [evaluator_id |-> 7, level |-> 0, message |-> "m", frame_uri |-> "f"]]

\* the subprocess answers the oldest request it has not answered yet
ServerAnswer ==
    /\ child = "running"
    /\ pc \in {"idle", "create_recv", "evaluate_recv"}
    /\ Len(stdout) < MaxPipe
    /\ served < Len(stdin)
    /\ \E m \in Answers(stdin[served + 1]) : stdout' = Append(stdout, m)
    /\ served' = served + 1
    /\ UNCHANGED <<pc, child, request_id, stdin, call, ret>>
    /\ UNCHANGED decoderVars

\* the subprocess writes a Log message
ServerLog ==
    /\ child = "running"
    /\ pc \in {"idle", "create_recv", "evaluate_recv"}
    /\ Len(stdout) < MaxPipe
    /\ stdout' = Append(stdout, LogMessage)
    /\ UNCHANGED <<pc, child, request_id, stdin, call, ret, served>>
    /\ UNCHANGED decoderVars

NextOrderly ==
    \/ ProtocolNew
    \/ ProtocolNewFails
    \/ ServerAnswer
    \/ ServerLog
    \/ \E i \in EvalInputs : EvalCall(i[1], i[2])
    \/ RecvCreate
    \/ RecvEvaluate
    \/ Drop

SpecOrderly == Init /\ [][NextOrderly]_vars

-----------------------------------------------------------------------------
(* The inputs of SpecDecoder: raw byte strings over Alphabet, and buffers  *)
(* written the way a MessagePack encoder writes them.                      *)

\* bytes that select every kind of arm of decode_inner
Alphabet ==
    {0, 1, 3, 5, 14, 16, 129, 144, 145, 147, 161, 192, 193, 194, 195, 196,
     202, 203, 204, 207, 208, 211, 212, 217, 218, 219, 220, 221, 222, 223, 255}

RawInputs == UNION {[1..n -> Alphabet] : n \in 0..MaxRawLen}

RECURSIVE Concat(_)
Concat(ss) == IF ss = <<>> THEN <<>> ELSE Head(ss) \o Concat(Tail(ss))

\* the three ways to write a count before the elements of an array
CountForms == {"fix", "16", "32"}
ArrayHeader(form, n) ==
    CASE form = "fix" -> <<144 + n>>
      [] form = "16" -> <<220, 0, n>>
      [] OTHER -> <<221, 0, 0, 0, n>>

FixStr(s) == <<160 + Len(s)>> \o s
Str8(s) == <<217, Len(s)>> \o s

\* integers: a marker and a big-endian payload of the marker's width
IntMarkers == {204, 205, 206, 207, 208, 209, 210, 211}
IntWidth(m) == CASE m \in {204, 208} -> 1 [] m \in {205, 209} -> 2 [] m \in {206, 210} -> 4 [] OTHER -> 8
IntPayloads(m) ==
    [1..IntWidth(m) -> {0, 255}]
        \cup {[k \in 1..IntWidth(m) |-> x] : x \in {5, 127, 128, m}}
        \cup {[k \in 1..IntWidth(m) |-> IF k = 1 THEN x ELSE 0] : x \in {1, 127, 128, m}}
IntCases ==
    UNION {{[form |-> "int", m |-> m, payload |-> pl] : pl \in IntPayloads(m)} : m \in IntMarkers}
        \cup {[form |-> "int", m |-> m, payload |-> <<>>] : m \in 0..127}

\* encoded items used as names, values, elements and payloads
FunctionItem == <<145, 14>>
ObjectItem == <<148, 1>> \o FixStr(<<67>>) \o FixStr(<<117>>) \o <<145, 147, 16>> \o FixStr(<<112>>) \o <<42>>
ListingItem == <<146, 5, 145>> \o FunctionItem
MappingItem == <<146, 3, 129, 7>> \o FixStr(<<107>>)
NameItems == {FixStr(<<97>>), Str8(<<98>>), <<1>>}
ValueItems == {<<1>>, FixStr(<<120>>), FunctionItem, ObjectItem, <<204, 5>>}

SeqsUpTo(S, n) == UNION {[1..k -> S] : k \in 0..n}

ObjectCases ==
    {[form |-> "object", cls |-> c, uri |-> u, cnt |-> f, props |-> ps] :
        c \in {FixStr(<<67>>), Str8(<<68, 68>>)}, u \in {FixStr(<<117>>)},
        f \in CountForms, ps \in SeqsUpTo(NameItems \X ValueItems, MaxProps)}

\* object envelopes whose class name, module URI or both are the empty
\* string, alone and as the element of an array
NamelessCases ==
    {[form |-> "object", cls |-> c, uri |-> u, cnt |-> "fix", props |-> <<>>] :
        c \in {<<160>>, <<217, 0>>, FixStr(<<67>>)}, u \in {<<160>>, FixStr(<<117>>)}}
    \cup {[form |-> "array", cnt |-> "16", elems |-> <<(<<148, 1, 160, 160, 144>>)>>]}

ArrayCases ==
    {[form |-> "array", cnt |-> f, elems |-> es] :
        f \in CountForms, es \in SeqsUpTo(ValueItems, MaxElems)}

\* payloads of a tag-0x3 or tag-0x5 envelope: arrays and maps of every form
\* (also the 16- and 32-bit maps), and two items that are no container
MapItems ==
    {<<128 + Len(es)>> \o Concat([k \in 1..Len(es) |-> es[k][1] \o es[k][2]]) :
        es \in SeqsUpTo(ValueItems \X {FixStr(<<107>>), FunctionItem}, MaxElems)}
        \cup {<<222, 0, 1, 7>> \o FixStr(<<107>>), <<223, 0, 0, 0, 1, 7>> \o FixStr(<<107>>)}
ArrayItems ==
    {ArrayHeader(f, Len(es)) \o Concat(es) : f \in CountForms, es \in SeqsUpTo(ValueItems, MaxElems)}
WrapCases ==
    {[form |-> "wrap", n |-> n, tag |-> t, payload |-> pl] :
        n \in {2}, t \in {3, 5}, pl \in MapItems \cup ArrayItems \cup {<<42>>, FunctionItem}}

\* the three ways to write a count before the entries of a map
MapHeader(form, n) ==
    CASE form = "fix" -> <<128 + n>>
      [] form = "16" -> <<222, 0, n>>
      [] OTHER -> <<223, 0, 0, 0, n>>

\* maps of every length form, each entry an encoded pair of items
MapCases ==
    {[form |-> "map", cnt |-> f, entries |-> es] :
        f \in CountForms,
        es \in SeqsUpTo({<<1>>, FixStr(<<107>>), <<204, 5>>} \X {<<42>>, FunctionItem}, MaxElems)}

\* the four ways to write the length of a string
StrForms == {"fix", "8", "16", "32"}
StrHeader(form, n) ==
    CASE form = "fix" -> <<160 + n>>
      [] form = "8" -> <<217, n>>
      [] form = "16" -> <<218, n \div 256, n % 256>>
      [] OTHER -> <<219, n \div 16777216, (n \div 65536) % 256, (n \div 256) % 256, n % 256>>

\* strings of every length form whose payload is complete or cut short,
\* and some whose declared length is far beyond the buffer
StrCases ==
    {[form |-> "str", pre |-> f, len |-> n, payload |-> pl] :
        f \in StrForms, n \in 0..MaxStrLen, pl \in SeqsUpTo({97, 195, 169}, MaxStrLen)}
    \cup {[form |-> "str", pre |-> "fix", len |-> 31, payload |-> <<97>>],
          [form |-> "str", pre |-> "8", len |-> 255, payload |-> <<97>>],
          [form |-> "str", pre |-> "16", len |-> 65535, payload |-> <<97>>],
          [form |-> "str", pre |-> "32", len |-> 65536, payload |-> <<97>>],
          [form |-> "str", pre |-> "32", len |-> 2147483647, payload |-> <<97>>]}

\* envelopes whose array marker declares more elements than the arm of the
\* tag reads, each followed by nothing else
ArityCases ==
    {[form |-> "arity", bytes |-> <<146, 14, 42>>],
     [form |-> "arity", bytes |-> <<147, 5, 145, 42, 42>>],
     [form |-> "arity", bytes |-> <<147, 3, 128, 42>>],
     [form |-> "arity", bytes |-> <<149, 1>> \o FixStr(<<67>>) \o FixStr(<<117>>) \o <<144, 42>>]}

\* a tag-0x3 envelope around a map, inside an array (of the 16-bit form,
\* which is no envelope itself), as the value of a map
\* entry, as a property value of an object and inside a tag-0x5 envelope
NestedCases ==
    {[form |-> "nested", outer |-> o, payload |-> pl] :
        o \in {"array", "map", "object", "listing"}, pl \in MapItems}

\* an object envelope with one property entry of tag c.tag
PropTagCases == {[form |-> "proptag", tag |-> t] : t \in {0, 16, 17}}

Build(c) ==
    CASE c.form = "int" -> <<c.m>> \o c.payload
      [] c.form = "proptag" ->
            <<148, 1>> \o FixStr(<<67>>) \o FixStr(<<117>>) \o <<145, 147, c.tag>>
                \o FixStr(<<112>>) \o <<42>>
      [] c.form = "object" ->
            <<148, 1>> \o c.cls \o c.uri \o ArrayHeader(c.cnt, Len(c.props))
                \o Concat([k \in 1..Len(c.props) |-> <<147, 16>> \o c.props[k][1] \o c.props[k][2]])
      [] c.form = "array" -> ArrayHeader(c.cnt, Len(c.elems)) \o Concat(c.elems)
      [] c.form = "wrap" -> <<144 + c.n, c.tag>> \o c.payload
      [] c.form = "arity" -> c.bytes
      [] c.form = "nested" ->
            CASE c.outer = "array" -> <<220, 0, 1, 146, 3>> \o c.payload
              [] c.outer = "map" -> <<129, 146, 3>> \o c.payload \o FixStr(<<107>>)
              [] c.outer = "object" ->
                    <<148, 1>> \o FixStr(<<67>>) \o FixStr(<<117>>) \o <<145, 147, 16>>
                        \o FixStr(<<112>>) \o <<146, 3>> \o c.payload
              [] OTHER -> <<146, 5, 145, 146, 3>> \o c.payload
      [] c.form = "str" ->
            StrHeader(c.pre, c.len) \o SubSeq(c.payload, 1, IF Len(c.payload) < c.len THEN Len(c.payload) ELSE c.len)
      [] c.form = "map" ->
            MapHeader(c.cnt, Len(c.entries))
                \o Concat([k \in 1..Len(c.entries) |-> c.entries[k][1] \o c.entries[k][2]])

-----------------------------------------------------------------------------
(* SpecDecoder: Decoder::new(Cursor::new(input)).decode()                  *)

InitDecoder ==
    /\ SessionIdle
    /\ dpc = "ready"
    /\ out = NoResult
    /\ \/ tc = [form |-> "raw"] /\ input \in RawInputs
       \/ \E c \in IntCases : tc = c /\ input = Build(c)
       \/ \E c \in ObjectCases \cup NamelessCases : tc = c /\ input = Build(c)
       \/ \E c \in ArrayCases : tc = c /\ input = Build(c)
       \/ \E c \in WrapCases : tc = c /\ input = Build(c)
       \/ \E c \in PropTagCases : tc = c /\ input = Build(c)
       \/ \E c \in MapCases : tc = c /\ input = Build(c)
       \/ \E c \in StrCases : tc = c /\ input = Build(c)
       \/ \E c \in ArityCases : tc = c /\ input = Build(c)
       \/ \E c \in NestedCases : tc = c /\ input = Build(c)

Decode ==
    /\ dpc = "ready"
    /\ out' = decode(input, 1)
    /\ dpc' = "done"
    /\ UNCHANGED <<tc, input>>
    /\ UNCHANGED sessionVars

NextDecoder == Decode

SpecDecoder == InitDecoder /\ [][NextDecoder]_vars

-----------------------------------------------------------------------------
(* SpecParse: PklError::parse(input)                                       *)

\* the characters of generated error strings: '\n', ' ', 'A', 'm'
ErrorAlphabet == {10, 32, 65, 109}

\* generated error strings, and "A\nmsg\nt 1\nt 2"
ErrorInputs ==
    SeqsUpTo(ErrorAlphabet, MaxErrLen)
        \cup {<<65, 10, 109, 115, 103, 10, 116, 32, 49, 10, 116, 32, 50>>}

InitParse ==
    /\ SessionIdle
    /\ dpc = "ready"
    /\ out = NoResult
    /\ tc = [form |-> "error"]
    /\ input \in ErrorInputs

Parse ==
    /\ dpc = "ready"
    /\ out' = parse(input)
    /\ dpc' = "done"
    /\ UNCHANGED <<tc, input>>
    /\ UNCHANGED sessionVars

NextParse == Parse

SpecParse == InitParse /\ [][NextParse]_vars

-----------------------------------------------------------------------------
(* SpecRequestId: Evaluator::gen_request_id on a session whose counter is  *)
(* input, in a build with or without overflow checks.                      *)

\* counters: every pattern of the bytes 0x00 and 0xff (0 and u64::MAX among
\* them), and the small numbers
CounterInputs == [1..8 -> {0, 255}] \cup {U64(n) : n \in 1..3}

InitRequestId ==
    /\ SessionIdle
    /\ dpc = "ready"
    /\ out = NoResult
    /\ \E overflow_checks \in OverflowChecks :
            tc = [form |-> "counter", overflow_checks |-> overflow_checks]
    /\ input \in CounterInputs

GenRequestId ==
    /\ dpc = "ready"
    /\ out' = gen_request_id(input, tc.overflow_checks)
    /\ dpc' = "done"
    /\ UNCHANGED <<tc, input>>
    /\ UNCHANGED sessionVars

NextRequestId == GenRequestId

SpecRequestId == InitRequestId /\ [][NextRequestId]_vars

-----------------------------------------------------------------------------
(* SpecResponse: the message input is read from the pipe where a message   *)
(* of type T (tc.expected, T::CODE) is awaited.                            *)

\* the codes of the types that implement TryFrom<Response>
ResponseCodes == {33, 36, 37, 38, 40, 42, 44, 46, 48, 50}

\* envelope codes: every code of the catalog and around it, and large ones
EnvelopeCodes == (0..63) \cup {255, 256, 65536}

\* a payload of the shape of the code
PayloadOf(code) ==
    CASE code = 33 -> [request_id |-> U64(0), evaluator_id |-> <<7>>, error |-> <<>>]
      [] code = 36 -> [request_id |-> U64(0), evaluator_id |-> 7, result |-> <<(<<42>>)>>, error |-> <<>>]
      [] code = 37 -> [evaluator_id |-> 7, level |-> 0, message |-> "m", frame_uri |-> "f"]
      [] code \in {38, 40, 42, 44} -> [request_id |-> U64(0), evaluator_id |-> 7, uri |-> "u"]
      [] code \in {46, 48} -> [request_id |-> U64(0), scheme |-> "s"]
      [] OTHER -> [none |-> 0]

InitResponse ==
    /\ SessionIdle
    /\ dpc = "ready"
    /\ out = NoResult
    /\ \E code \in ResponseCodes : tc = [form |-> "response", expected |-> code]
    /\ \E code \in EnvelopeCodes : input = [code |-> code, payload |-> PayloadOf(code)]

Receive ==
    /\ dpc = "ready"
    /\ out' = [kind |-> "received",
               response |-> decode_response(input),
               typed |-> recv(input, tc.expected),
               eval |-> CASE tc.expected = 33 -> eval_create_response(input, U64(0))
                          [] tc.expected = 36 -> eval_evaluate_response(input, U64(0))
                          [] OTHER -> NoResult]
    /\ dpc' = "done"
    /\ UNCHANGED <<tc, input>>
    /\ UNCHANGED sessionVars

NextResponse == Receive

SpecResponse == InitResponse /\ [][NextResponse]_vars

-----------------------------------------------------------------------------
(* SpecSend: Protocol::send(input.message) on an empty pipe, for a message *)
(* of the struct with the code input.code.                                 *)

\* messages of every client struct, with every choice of the Option fields
\* that hold a value
ClientMessages ==
    UNION {{[code |-> code,
             message |-> [f \in DOMAIN ClientMessageDefault(code) |->
                            IF f \in some THEN <<"v">> ELSE ClientMessageDefault(code)[f]]] :
                some \in SUBSET (DOMAIN ClientMessageDefault(code) \cap OptionFields)} :
           code \in ClientCodes}

InitSend ==
    /\ SessionIdle
    /\ dpc = "ready"
    /\ out = NoResult
    /\ tc = [form |-> "send"]
    /\ input \in ClientMessages

Send ==
    /\ dpc = "ready"
    /\ out' = send(<<>>, input.code, input.message)
    /\ dpc' = "done"
    /\ UNCHANGED <<tc, input>>
    /\ UNCHANGED sessionVars

NextSend == Send

SpecSend == InitSend /\ [][NextSend]_vars

-----------------------------------------------------------------------------
(* Claims about the session, checked under Spec.                           *)

\* the step in which eval, blocked at position at, reads the message m
Reads(at, m) ==
    /\ pc = at
    /\ stdout # <<>>
    /\ m = Head(stdout)
    /\ stdout' = Tail(stdout)

\* the messages written to the subprocess by the current call, after the step
SentInCall == SubSeq(stdin', call.base + 1, Len(stdin'))

InvalidRequestId(expected, actual) ==
    Err([e |-> "InvalidRequestId", expected |-> expected, actual |-> actual])

\* C1: an evaluate-response with no error whose requestId differs from the
\* ID sent makes eval fail with a request-ID mismatch (expected = the ID
\* sent, actual = the ID received); eval returns no value from it.
C1_EvaluateResponseIdChecked ==
    [][\A m \in EvaluateResponses :
        (/\ Reads("evaluate_recv", m)
         /\ m.payload.error = <<>>
         /\ m.payload.request_id # call.request_id)
        => ret' = InvalidRequestId(call.request_id, m.payload.request_id)]_vars

\* C2: a create-response with no error whose requestId differs from the ID
\* just sent makes eval fail with a request-ID mismatch carrying the
\* expected and the actual ID, and the call writes no evaluate-request.
C2_CreateResponseIdMismatch ==
    [][\A m \in CreateEvaluatorResponses :
        (/\ Reads("create_recv", m)
         /\ m.payload.error = <<>>
         /\ m.payload.request_id # call.request_id)
        => /\ ret' = InvalidRequestId(call.request_id, m.payload.request_id)
           /\ pc' = "idle"
           /\ \A k \in 1..Len(SentInCall) : SentInCall[k].code # 35]_vars

\* eval has returned a request-ID mismatch
C2_Witness ==
    /\ pc = "idle"
    /\ ret.kind = "err"
    /\ ret.err.e = "InvalidRequestId"
    /\ ret.err.expected # ret.err.actual

\* values and what a MessagePack encoder writes for them: 42 (a positive
\* fixnum), 200 (unsigned 8-bit), -1 (a negative fixnum)
ReferenceEncodings ==
    {[val |-> VUint(ZeroExt(<<42>>)), buf |-> <<42>>],
     [val |-> VUint(ZeroExt(<<200>>)), buf |-> <<204, 200>>],
     [val |-> VInt(SignExt(<<255>>)), buf |-> <<255>>]}

\* C3: the happy path. When the create-response carried the call's request
\* ID and an evaluator ID e, and the evaluate-response carries the same
\* request ID, the same e and the encoding of a value v, eval has sent
\* exactly one create-request then exactly one evaluate-request and
\* returns Some(v).
C3_HappyPath ==
    [][\A m \in EvaluateResponses : \A enc \in ReferenceEncodings :
        (/\ Reads("evaluate_recv", m)
         /\ m.payload.error = <<>>
         /\ m.payload.request_id = call.request_id
         /\ m.payload.evaluator_id = stdin[Len(stdin)].payload.evaluatorId
         /\ m.payload.result = <<enc.buf>>)
        => /\ ret' = EvalOk(<<enc.val>>)
           /\ Len(SentInCall) = 2
           /\ SentInCall[1].code = 32
           /\ SentInCall[2].code = 35]_vars

\* C4: when the session has ended, on whatever path, the subprocess that
\* Protocol::new spawned is not running any more.
C4_SubprocessTerminated == pc = "ended" => child # "running"

\* the create-requests written to the subprocess so far, in order
CreateRequests == SelectSeq(stdin, LAMBDA m : m.code = 32)

\* C15: over any sequence of eval calls on one session, whether the calls
\* succeed or fail, the k-th create-request carries the request ID k - 1:
\* the IDs are pairwise distinct and strictly increasing (0, 1, 2, ...),
\* one is consumed by every call and none is used twice.
C15_RequestIdsIncrease ==
    \A k \in 1..Len(CreateRequests) : CreateRequests[k].payload.requestId = U64(k - 1)

\* two calls have failed before their evaluate-request, and the second has
\* carried the ID 1
C15_Witness ==
    /\ pc = "idle"
    /\ ret.kind = "err"
    /\ Len(stdin) = 2
    /\ Len(CreateRequests) = 2
    /\ CreateRequests[2].payload.requestId = U64(1)

\* a module location on the wire: a local path behind "file://", or the URL
Location(uri) == IF uri.kind = "File" THEN "file://" \o uri.s ELSE uri.s

\* C22: in every eval call that reaches the evaluate step, the
\* evaluate-request carries the request ID of the call's create-request,
\* the evaluator ID that the create-response returned, the module location
\* that was passed to eval, and the expression "output.value".
C22_EvaluateRequestFields ==
    [][(pc = "create_recv" /\ pc' = "evaluate_recv")
        => LET response == Head(stdout).payload
               create == stdin[call.base + 1]
               evaluate == stdin'[Len(stdin')]
           IN  /\ Len(stdin') = Len(stdin) + 1
               /\ create.code = 32
               /\ evaluate.code = 35
               /\ evaluate.payload.requestId = create.payload.requestId
               /\ response.evaluator_id # <<>>
               /\ evaluate.payload.evaluatorId = response.evaluator_id[1]
               /\ evaluate.payload.moduleUri = Location(call.uri)
               /\ evaluate.payload.expr = "output.value"]_vars

-----------------------------------------------------------------------------
(* Claims about the session with an orderly subprocess, checked under      *)
(* SpecOrderly.                                                            *)

\* the responses the subprocess has written and the client has not read
UnreadResponses == Cardinality({k \in 1..Len(stdout) : stdout[k].code \in {33, 36}})

\* the requests written to the subprocess whose response the client has
\* not read
Outstanding == Len(stdin) - (served - UnreadResponses)

\* C20: at every point of a sequence of eval calls on one session, with a
\* subprocess that answers each request once, in order, and may write Log
\* messages, at most one request written to the subprocess has a response
\* the client has not read: exactly one while eval blocks, none between
\* calls.
C20_OneRequestInFlight ==
    /\ pc \in {"idle", "create_recv", "evaluate_recv", "aborted"} => Outstanding <= 1
    /\ pc \in {"create_recv", "evaluate_recv"} => Outstanding = 1
    /\ pc = "idle" => Outstanding = 0

\* eval is blocked in a read
Blocked == pc \in {"create_recv", "evaluate_recv"}

\* the requests of earlier calls whose response the client has not read
Stale == Outstanding - (IF Blocked THEN 1 ELSE 0)

\* the step in which the current eval call ends
Returns == Blocked /\ pc' \in {"idle", "aborted"}

\* C21: the session never resynchronizes.  Once an eval call has read a
\* Log message in place of the response it awaited, the response stays
\* unread, the number of stale unread responses never decreases, and no
\* later eval call returns Ok: each reads a stale message and fails with
\* the unexpected-kind error, the request-ID mismatch, or the error of an
\* earlier request's response.
C21_NeverResynchronizes ==
    [][/\ (pc \in {"idle", "create_recv", "evaluate_recv"} /\ pc' # "ended")
            => Stale' >= Stale
       /\ (Stale >= 1 /\ pc = "create_recv") => pc' # "evaluate_recv"
       /\ (Stale >= 1 /\ Returns)
            => /\ ret'.kind = "err"
               /\ ret'.err.e \in {"InvalidResponse", "InvalidRequestId", "Pkl"}]_vars

-----------------------------------------------------------------------------
(* Claims about Decoder::decode, checked under SpecDecoder.                *)

Decoded == dpc = "done"

\* the markers outside the supported set of the value codec
UnsupportedMarkers ==
    {"FixNeg", "Reserved", "Bin8", "Bin16", "Bin32", "Ext8", "Ext16", "Ext32",
     "FixExt1", "FixExt2", "FixExt4", "FixExt8", "FixExt16"}

\* C5: on a marker byte outside the supported set, decode returns the
\* unsupported-marker error carrying that marker; it does not abort.
C5_UnsupportedMarkerIsError ==
    (Decoded /\ input # <<>> /\ MarkerName(input[1]) \in UnsupportedMarkers)
        => out = Err(E("InvalidMarker", input[1]))

\* C6: a fixed-size array marker read as an envelope whose tag byte is none
\* of 0x1, 0x3, 0x5, 0xE, and a property entry whose tag byte is not 0x10,
\* make decode return an error value; it does not abort.
C6_UnknownTagIsError ==
    /\ (Decoded /\ Len(input) >= 2 /\ MarkerName(input[1]) = "FixArray"
            /\ input[2] \notin {1, 3, 5, 14})
        => out.kind = "err"
    /\ (Decoded /\ tc.form = "proptag" /\ tc.tag # 16) => out.kind = "err"

\* C7: for every integer marker class, decode of the marker byte followed
\* by the big-endian payload of its width returns Int(x) for the signed
\* markers and Uint(x) for the unsigned markers and the positive fixnum.
C7_IntegerRoundTrip ==
    (Decoded /\ tc.form = "int")
        => out = Ok(IF tc.m \in {208, 209, 210, 211} THEN VInt(SignExt(tc.payload))
                    ELSE IF tc.m \in {204, 205, 206, 207} THEN VUint(ZeroExt(tc.payload))
                    ELSE VUint(ZeroExt(<<tc.m>>)),
                    Len(input) + 1)

\* the item e is a tag-0x1 envelope that decodes, on its own, to an Object
IsObjectItem(e) ==
    /\ Len(e) >= 2
    /\ MarkerName(e[1]) = "FixArray"
    /\ e[2] = 1
    /\ decode_inner(e, 1, TRUE).kind = "ok"
    /\ decode_inner(e, 1, TRUE).val.t = "Object"

\* C8 as stated: an array of any of the three length forms that contains
\* one element shaped as a tag-0x1 envelope decodes to an Array whose
\* single element is an Object.
C8_ArrayOfEnvelope_AnyForm ==
    (Decoded /\ tc.form = "array" /\ Len(tc.elems) = 1 /\ IsObjectItem(tc.elems[1]))
        => out = Ok(VArray(<<decode_inner(tc.elems[1], 1, TRUE).val>>), Len(input) + 1)

\* C8 as amended: an array of the 16-bit or the 32-bit length form, or of
\* the fixed form where it is the payload of a tag-0x3 or tag-0x5 envelope,
\* that contains one element which is a tag-0x1 envelope decoding to an
\* Object o, decodes to the Array [o].
C8_ArrayOfEnvelope ==
    /\ (Decoded /\ tc.form = "array" /\ tc.cnt \in {"16", "32"}
            /\ Len(tc.elems) = 1 /\ IsObjectItem(tc.elems[1]))
        => out = Ok(VArray(<<decode_inner(tc.elems[1], 1, TRUE).val>>), Len(input) + 1)
    /\ (Decoded /\ tc.form = "wrap" /\ Len(tc.payload) >= 2 /\ tc.payload[1] = 145
            /\ IsObjectItem(Tail(tc.payload)))
        => out = Ok(VArray(<<decode_inner(Tail(tc.payload), 1, TRUE).val>>), Len(input) + 1)

\* a 16-bit-length array of one object envelope has been decoded to a value
C8_Witness ==
    /\ Decoded
    /\ tc.form = "array"
    /\ tc.cnt = "16"
    /\ tc.elems = <<ObjectItem>>
    /\ out.kind = "ok"

\* the plain decoding of a class name, module URI or property name item
PlainString(item) == decode_inner(item, 1, FALSE)
IsStringItem(item) ==
    /\ PlainString(item).kind = "ok"
    /\ PlainString(item).val.t = "String"
    /\ PlainString(item).pos = Len(item) + 1

\* the extension-aware decoding of a property value item
AwareValue(item) == decode_inner(item, 1, TRUE)

\* C9: a tag-0x1 envelope [0x1, className, moduleUri, [[0x10, name_i,
\* value_i] ...]] with pairwise distinct names decodes to the Object of that
\* class name and module URI whose properties map exactly each name_i to
\* the extension-aware decoding of value_i, whatever the count prefix form
\* of the property block.
C9_ObjectEnvelope ==
    (/\ Decoded
     /\ tc.form = "object"
     /\ IsStringItem(tc.cls)
     /\ IsStringItem(tc.uri)
     /\ \A k \in 1..Len(tc.props) :
            /\ IsStringItem(tc.props[k][1])
            /\ AwareValue(tc.props[k][2]).kind = "ok"
     /\ \A j, k \in 1..Len(tc.props) : j # k => tc.props[j][1] # tc.props[k][1])
    => /\ out.kind = "ok"
       /\ out.pos = Len(input) + 1
       /\ out.val.t = "Object"
       /\ out.val.class_name = PlainString(tc.cls).val.s
       /\ out.val.module_uri = PlainString(tc.uri).val.s
       /\ DOMAIN out.val.properties
            = {PlainString(tc.props[k][1]).val.s : k \in 1..Len(tc.props)}
       /\ \A k \in 1..Len(tc.props) :
            out.val.properties[PlainString(tc.props[k][1]).val.s]
                = AwareValue(tc.props[k][2]).val

\* an envelope with two properties behind a 32-bit count has been decoded
C9_Witness ==
    /\ Decoded
    /\ tc.form = "object"
    /\ tc.cnt = "32"
    /\ Len(tc.props) = 2
    /\ out.kind = "ok"
    /\ Cardinality(DOMAIN out.val.properties) = 2

\* a result with its cursor position moved by d
Shift(r, d) == IF r.kind = "ok" THEN Ok(r.val, r.pos + d) ELSE r

\* C10: an envelope with tag 0x3 or 0x5 is transparent: decoding [tag,
\* payload] returns what decoding the payload alone in plain mode returns
\* (the payload's own array marker is not read as an envelope), and the
\* entries inside the payload are decoded extension-aware.
C10_MappingListingTransparent ==
    (Decoded /\ tc.form = "wrap")
    => /\ out = Shift(decode_inner(tc.payload, 1, FALSE), 2)
       /\ \A f \in CountForms :
            tc.payload = ArrayHeader(f, 1) \o FunctionItem
                => out = Ok(VArray(<<VFunction>>), Len(input) + 1)
       /\ tc.payload = <<129>> \o FunctionItem \o FixStr(<<107>>)
                => out = Ok(VMap(<<<<VString(<<107>>), VFunction>>>>), Len(input) + 1)

\* a tag-0x3 envelope around a map of two entries has been decoded to a Map
C10_Witness ==
    /\ Decoded
    /\ tc.form = "wrap"
    /\ tc.tag = 3
    /\ out.kind = "ok"
    /\ out.val.t = "Map"
    /\ Len(out.val.m) = 2

\* C11: a map of any of the three length forms (fixed-size, 16-bit and
\* 32-bit length prefix) decodes to a Map value holding the declared number
\* of entries; no form is rejected, none aborts.
C11_MapAllForms ==
    (Decoded /\ tc.form = "map")
        => /\ out.kind = "ok"
           /\ out.val.t = "Map"
           /\ Len(out.val.m) = Len(tc.entries)

\* C12: for every string marker form (fixed, 8-, 16-, 32-bit length prefix)
\* with declared length L, a stream that ends after fewer than L payload
\* bytes makes decode return a failure; decode never returns a String
\* shorter than L.
C12_TruncatedString ==
    (Decoded /\ tc.form = "str")
        => /\ Len(tc.payload) < tc.len => out.kind = "err"
           /\ out.kind = "ok" => (out.val.t = "String" /\ Len(out.val.s) = tc.len)

\* a string with a 32-bit length of 2 and one payload byte has been refused
C12_Witness ==
    /\ Decoded
    /\ tc.form = "str"
    /\ tc.pre = "32"
    /\ tc.len = 2
    /\ Len(tc.payload) = 1
    /\ out.kind = "err"

RECURSIVE ObjectsNamed(_)
\* every Object in the value v, v itself included, has a non-empty class
\* name and a non-empty module URI
ObjectsNamed(v) ==
    CASE v.t = "Object" ->
            /\ v.class_name # <<>>
            /\ v.module_uri # <<>>
            /\ \A k \in DOMAIN v.properties : ObjectsNamed(v.properties[k])
      [] v.t = "Array" -> \A k \in 1..Len(v.a) : ObjectsNamed(v.a[k])
      [] v.t = "Map" -> \A k \in 1..Len(v.m) : ObjectsNamed(v.m[k][1]) /\ ObjectsNamed(v.m[k][2])
      [] OTHER -> TRUE

\* C19: every Object that decode returns, at top level or nested, has a
\* non-empty className and a non-empty moduleUri (both decoded before its
\* properties); an envelope whose class name or module URI is the empty
\* string is not turned into an Object.
C19_ObjectNamesNonEmpty ==
    (Decoded /\ out.kind = "ok") => ObjectsNamed(out.val)

RECURSIVE WireEnd(_, _)
RECURSIVE WireSkip(_, _, _)

\* the position after the item at p made of a marker, a length of w bytes,
\* x more bytes and then as many payload bytes as the length says; 0 where
\* the buffer ends before
WirePayloadEnd(b, p, w, x) ==
    IF p + w + x > Len(b) THEN 0
    ELSE LET len == BE(SubSeq(b, p + 1, p + w))
             q == p + w + x + 1
         IN  IF len > Len(b) - q + 1 THEN 0 ELSE q + len

\* the position after the n encoded items that start at p; 0 where the
\* buffer ends before
WireSkip(b, p, n) ==
    IF n = 0 THEN p
    ELSE LET e == WireEnd(b, p) IN IF e = 0 THEN 0 ELSE WireSkip(b, e, n - 1)

\* the position after the encoded item that starts at p, by the layout of
\* the wire format alone: a marker, then data of the marker's width, or a
\* length and that many bytes, or a count and that many items (twice that
\* many for a map); 0 where the buffer ends before
WireEnd(b, p) ==
    IF p > Len(b) THEN 0
    ELSE LET m == b[p]
             name == MarkerName(m)
             fixed(w) == IF p + w > Len(b) THEN 0 ELSE p + w + 1
             items(w) ==
                IF p + w > Len(b) THEN 0
                ELSE WireSkip(b, p + w + 1, BE(SubSeq(b, p + 1, p + w)))
             pairs(w) ==
                IF items(w) = 0 THEN 0
                ELSE WireSkip(b, items(w), BE(SubSeq(b, p + 1, p + w)))
         IN  CASE name \in {"FixPos", "FixNeg", "Null", "Reserved", "True", "False"} -> p + 1
               [] name \in {"U8", "I8"} -> fixed(1)
               [] name \in {"U16", "I16", "FixExt1"} -> fixed(2)
               [] name = "FixExt2" -> fixed(3)
               [] name \in {"U32", "I32", "F32"} -> fixed(4)
               [] name = "FixExt4" -> fixed(5)
               [] name \in {"U64", "I64", "F64"} -> fixed(8)
               [] name = "FixExt8" -> fixed(9)
               [] name = "FixExt16" -> fixed(17)
               [] name = "FixStr" -> fixed(m - 160)
               [] name \in {"Str8", "Bin8"} -> WirePayloadEnd(b, p, 1, 0)
               [] name \in {"Str16", "Bin16"} -> WirePayloadEnd(b, p, 2, 0)
               [] name \in {"Str32", "Bin32"} -> WirePayloadEnd(b, p, 4, 0)
               [] name = "Ext8" -> WirePayloadEnd(b, p, 1, 1)
               [] name = "Ext16" -> WirePayloadEnd(b, p, 2, 1)
               [] name = "Ext32" -> WirePayloadEnd(b, p, 4, 1)
               [] name = "FixArray" -> WireSkip(b, p + 1, m - 144)
               [] name = "FixMap" -> WireSkip(b, p + 1, 2 * (m - 128))
               [] name = "Array16" -> items(2)
               [] name = "Array32" -> items(4)
               [] name = "Map16" -> pairs(2)
               [] OTHER -> pairs(4)

\* C23: after every successful decode the cursor has advanced by exactly
\* the bytes the decoded value occupies on the wire, so that a following
\* decode starts at the first byte of the next value; in particular a
\* fixed-size array marker declaring n elements that is read as an
\* envelope has all its n elements consumed, whatever the tag.
C23_CursorAtEndOfValue ==
    (Decoded /\ out.kind = "ok") => out.pos = WireEnd(input, 1)

-----------------------------------------------------------------------------
(* Claims about PklError::parse, checked under SpecParse.                  *)

RECURSIVE Lines(_)
\* the newline-delimited lines of a string
Lines(str) ==
    IF \A k \in 1..Len(str) : str[k] # 10 THEN <<str>>
    ELSE LET k == CHOOSE x \in 1..Len(str) :
                    str[x] = 10 /\ \A y \in 1..(x - 1) : str[y] # 10
         IN  <<SubSeq(str, 1, k - 1)>> \o Lines(SubSeq(str, k + 1, Len(str)))

RECURSIVE JoinLines(_)
\* lines put together again, a newline between each two
JoinLines(ls) ==
    IF Len(ls) = 1 THEN ls[1] ELSE ls[1] \o <<10>> \o JoinLines(Tail(ls))

\* t is str without its leading and trailing whitespace
IsTrimOf(t, str) ==
    /\ t # <<>> => (t[1] \notin Whitespace /\ t[Len(t)] \notin Whitespace)
    /\ \E i \in 0..Len(str) :
            /\ i + Len(t) <= Len(str)
            /\ SubSeq(str, i + 1, i + Len(t)) = t
            /\ \A k \in (1..i) \cup ((i + Len(t) + 1)..Len(str)) : str[k] \in Whitespace

Parsed == dpc = "done" /\ tc.form = "error"

\* C13: on an error string of three or more lines, parse returns message =
\* the second line and trace = everything from the third line to the end
\* (later newlines kept) with the surrounding whitespace trimmed; the first
\* line is discarded.
C13_ParseThreeLines ==
    (Parsed /\ Len(Lines(input)) >= 3)
        => /\ out.kind = "ok"
           /\ out.val.message = Lines(input)[2]
           /\ Len(out.val.trace) = 1
           /\ IsTrimOf(out.val.trace[1],
                       JoinLines(SubSeq(Lines(input), 3, Len(Lines(input)))))

\* "A\nmsg\nt 1\nt 2" has been parsed to the message "msg" and the trace
\* "t 1\nt 2"
C13_Witness ==
    /\ Parsed
    /\ input = <<65, 10, 109, 115, 103, 10, 116, 32, 49, 10, 116, 32, 50>>
    /\ out.kind = "ok"
    /\ out.val.message = <<109, 115, 103>>
    /\ out.val.trace = <<(<<116, 32, 49, 10, 116, 32, 50>>)>>

\* C14: on an error string of exactly two lines, parse returns message =
\* the second line and no trace; on one of fewer than two lines it returns
\* the whole string as the message and no trace; it fails or aborts in
\* neither case.
C14_ParseTotal ==
    /\ (Parsed /\ Len(Lines(input)) = 2)
        => out = Ok([message |-> Lines(input)[2], trace |-> <<>>], 0)
    /\ (Parsed /\ Len(Lines(input)) < 2)
        => out = Ok([message |-> input, trace |-> <<>>], 0)

-----------------------------------------------------------------------------
(* Claims about Evaluator::gen_request_id, checked under SpecRequestId.    *)

\* C16: when the counter holds the largest unsigned 64-bit value,
\* gen_request_id returns that value and the counter becomes 0 (arithmetic
\* modulo 2^64); the call neither fails nor aborts.
C16_RequestIdWraps ==
    (dpc = "done" /\ tc.form = "counter" /\ input = U64Max)
        => out = [kind |-> "ok", request_id |-> U64Max, counter |-> U64(0)]

-----------------------------------------------------------------------------
(* Claims about the receive path, checked under SpecResponse.              *)

Received == dpc = "done" /\ tc.form = "response"

\* the message code table: the ten server-to-client codes and the kind of
\* Response bound to each
CodeTable ==
    {<<33, "CreateEvaluator">>, <<36, "Evaluate">>, <<37, "Log">>,
     <<38, "ReadResource">>, <<40, "ReadModule">>, <<42, "ListResources">>,
     <<44, "ListModules">>, <<46, "InitializeModuleReader">>,
     <<48, "InitializeResourceReader">>, <<50, "CloseExternalProcess">>}

UnexpectedResponseKind(name) == Err([e |-> "InvalidResponse", name |-> name])

\* C17: for every expected kind T and every decoded server message r, the
\* typed receive returns r's payload if and only if r is of kind T;
\* otherwise it fails with the unexpected-response-kind error carrying the
\* name of r's kind.  In particular eval fails with that error when it
\* reads a Log message where it awaits a create- or an evaluate-response.
C17_TypedReceive ==
    \A e \in CodeTable :
        (Received /\ input.code = e[1])
        => /\ tc.expected = input.code => out.typed = Ok(input.payload, 0)
           /\ tc.expected # input.code => out.typed = UnexpectedResponseKind(e[2])
           /\ (input.code = 37 /\ tc.expected \in {33, 36})
                => out.eval = UnexpectedResponseKind("Log")

\* eval has read a Log message where it awaited the evaluate-response
C17_Witness ==
    /\ Received
    /\ tc.expected = 36
    /\ input.code = 37
    /\ out.eval.kind = "err"
    /\ out.typed.kind = "err"

\* C18: decode_response dispatches on the envelope code by the table: each
\* of the ten server-to-client codes yields the Response kind bound to it
\* (around the payload), and every other code, the client-to-server codes
\* among them, fails with the unrecognized-code error carrying the code.
C18_DispatchByCode ==
    Received
    => /\ \A e \in CodeTable :
            input.code = e[1]
                => out.response = Ok([name |-> e[2], inner |-> input.payload], 0)
       /\ (\A e \in CodeTable : input.code # e[1])
            => out.response = Err([e |-> "InvalidCode", code |-> input.code])

\* a message with the code of the create-request (0x20) has been refused
C18_Witness ==
    /\ Received
    /\ input.code = 32
    /\ out.response = Err([e |-> "InvalidCode", code |-> 32])

\* C25: a map of n entries, in any length form, is decoded by reading its
\* 2n items in wire order: decode returns a Map of n pairs in wire order,
\* the cursor behind the last item, where the value of pair k is the
\* extension-aware decoding of the first item of entry k and its key that
\* of the second item; entries with equal keys are all kept.
C25_MapValueThenKey ==
    (Decoded /\ tc.form = "map")
        => /\ out.kind = "ok"
           /\ out.val.t = "Map"
           /\ out.pos = Len(input) + 1
           /\ Len(out.val.m) = Len(tc.entries)
           /\ \A k \in 1..Len(tc.entries) :
                /\ AwareValue(tc.entries[k][1]).kind = "ok"
                /\ AwareValue(tc.entries[k][2]).kind = "ok"
                /\ out.val.m[k] = <<AwareValue(tc.entries[k][2]).val,
                                    AwareValue(tc.entries[k][1]).val>>

RECURSIVE HasMapping(_)
\* the value v is of the Mapping variant or holds one somewhere inside
HasMapping(v) ==
    CASE v.t = "Mapping" -> TRUE
      [] v.t = "Object" -> \E k \in DOMAIN v.properties : HasMapping(v.properties[k])
      [] v.t = "Array" -> \E k \in 1..Len(v.a) : HasMapping(v.a[k])
      [] v.t = "Map" -> \E k \in 1..Len(v.m) : HasMapping(v.m[k][1]) \/ HasMapping(v.m[k][2])
      [] OTHER -> FALSE

\* the value decoded for the tag-0x3 envelope of a nested case
NestedValue ==
    CASE tc.outer = "map" -> out.val.m[1][2]
      [] tc.outer = "object" -> out.val.properties[<<112>>]
      [] OTHER -> out.val.a[1]

\* C26: no value that decode returns is of the Mapping variant or holds
\* one, at any depth; a tag-0x3 envelope, at top level or nested, yields
\* what its payload decodes to in plain mode, a Map for a map payload, so
\* that the tree does not tell a Mapping source from a Map source.
C26_NoMappingVariant ==
    /\ (Decoded /\ out.kind = "ok") => ~HasMapping(out.val)
    /\ (Decoded /\ tc.form = "wrap" /\ tc.tag = 3)
            => /\ out = Shift(decode_inner(tc.payload, 1, FALSE), 2)
               /\ (tc.payload \in MapItems /\ out.kind = "ok") => out.val.t = "Map"
    /\ (Decoded /\ tc.form = "nested" /\ out.kind = "ok")
            => /\ NestedValue = decode_inner(tc.payload, 1, FALSE).val
               /\ NestedValue.t = "Map"

\* a tag-0x3 envelope around a map of one entry, itself the only element
\* of an array, has been decoded to an Array holding a Map of one pair
C26_Witness ==
    /\ Decoded
    /\ tc.form = "nested"
    /\ tc.outer = "array"
    /\ out.kind = "ok"
    /\ out.val.a[1].t = "Map"
    /\ Len(out.val.a[1].m) = 1

-----------------------------------------------------------------------------
(* Claims about Protocol::send, checked under SpecSend.                    *)

\* C24: for every client message type sent through Protocol::send, a field
\* that holds no value is no key of the encoded payload map: no message
\* type encodes an absent optional field as an explicit null.
C24_AbsentFieldsOmitted ==
    (dpc = "done" /\ tc.form = "send")
        => \A f \in DOMAIN input.message \cap OptionFields :
                input.message[f] = <<>> => camelCase(f) \notin DOMAIN out[1].payload

=============================================================================
